---- MODULE Spec2Model ----
(***************************************************************************)
(* png_to_gcode of img2gcode.py as a state machine: one run of the         *)
(* raster-to-toolpath compiler, from opening the image to writing the      *)
(* program file.  Each action is one step of the function body; the row    *)
(* loop and the column loop advance one iteration per step.                *)
(*                                                                         *)
(* Python floats are IEEE doubles.  The quantizer, the scaler and the      *)
(* coordinate rounding are evaluated here in double arithmetic (53-bit     *)
(* mantissa, round to nearest even) on bit sequences, because truncating a *)
(* double is not truncating the exact quotient: int((1 - 204/255) * 100)   *)
(* is 19, not 20.                                                          *)
(***************************************************************************)
EXTENDS Integers, Sequences, FiniteSets, TLC

VARIABLES image, laser_max_power, feed_rate, fast_return_rate, lines_per_mm,
          output_file, thumbnail_ok, pc, new_width, new_height, pixels,
          bmp_path, gcode, y, x, x_start, current_power, total_gcode_lines,
          files, error

vars == <<image, laser_max_power, feed_rate, fast_return_rate, lines_per_mm,
          output_file, thumbnail_ok, pc, new_width, new_height, pixels,
          bmp_path, gcode, y, x, x_start, current_power, total_gcode_lines,
          files, error>>

(***************************************************************************)
(* Bounds of the model.                                                    *)
(***************************************************************************)
\* largest source image side, in pixels
MaxSrcSide == 4
\* largest number of samples of a target raster
MaxPixels == 6

(***************************************************************************)
(* Double arithmetic.  A non-negative double is [m, e]: the bits of its    *)
(* mantissa, most significant first, and the value is m * 2^e.  Zero has   *)
(* the empty mantissa.                                                     *)
(***************************************************************************)
MantissaBits == 53
LimbBits == 12
QuotientLimbs == 6

Zeros(n) == [i \in 1..n |-> 0]

Strip(b) ==
    IF \A i \in 1..Len(b) : b[i] = 0 THEN << >>
    ELSE LET first == CHOOSE i \in 1..Len(b) : b[i] = 1 /\ \A j \in 1..(i - 1) : b[j] = 0
         IN  SubSeq(b, first, Len(b))

Inc(b) ==
    IF \A i \in 1..Len(b) : b[i] = 1 THEN <<1>> \o Zeros(Len(b))
    ELSE LET z == CHOOSE i \in 1..Len(b) : b[i] = 0 /\ \A j \in (i + 1)..Len(b) : b[j] = 1
         IN  [i \in 1..Len(b) |-> IF i < z THEN b[i] ELSE IF i = z THEN 1 ELSE 0]

RECURSIVE BitsInt(_)
BitsInt(b) == IF b = << >> THEN 0 ELSE 2 * BitsInt(SubSeq(b, 1, Len(b) - 1)) + b[Len(b)]

\* limbs are least significant first, bits most significant first
LimbsToBits(l) ==
    Strip([i \in 1..(LimbBits * Len(l)) |->
              (l[Len(l) - ((i - 1) \div LimbBits)] \div 2^(LimbBits - 1 - ((i - 1) % LimbBits))) % 2])

BitsToLimbs(b) ==
    LET n == (Len(b) + LimbBits - 1) \div LimbBits
        p == Zeros(n * LimbBits - Len(b)) \o b
    IN  [j \in 1..n |-> BitsInt(SubSeq(p, (n - j) * LimbBits + 1, (n - j + 1) * LimbBits))]

IntBits(n) == LimbsToBits(<<n % 2^LimbBits, (n \div 2^LimbBits) % 2^LimbBits, n \div 2^(2 * LimbBits)>>)

RECURSIVE Column(_, _, _, _)
Column(a, b, k, i) ==
    IF i > Len(a) THEN 0
    ELSE (IF k + 1 - i \in 1..Len(b) THEN a[i] * b[k + 1 - i] ELSE 0) + Column(a, b, k, i + 1)

RECURSIVE Carry(_, _, _, _)
Carry(a, b, k, c) ==
    IF k > Len(a) + Len(b) THEN << >>
    ELSE LET t == Column(a, b, k, 1) + c
         IN  <<t % 2^LimbBits>> \o Carry(a, b, k + 1, t \div 2^LimbBits)

MulBits(a, b) ==
    IF a = << >> \/ b = << >> THEN << >>
    ELSE LimbsToBits(Carry(BitsToLimbs(a), BitsToLimbs(b), 1, 0))

RECURSIVE LongDivision(_, _, _)
LongDivision(r, den, n) ==
    IF n = 0 THEN <<<< >>, r>>
    ELSE LET rest == LongDivision((r * 2^LimbBits) % den, den, n - 1)
         IN  <<<<(r * 2^LimbBits) \div den>> \o rest[1], rest[2]>>

Reverse(s) == [i \in 1..Len(s) |-> s[Len(s) + 1 - i]]

RoundBits(b, sticky) ==
    IF Len(b) <= MantissaBits THEN [m |-> b, e |-> 0]
    ELSE LET k == Len(b) - MantissaBits
             top == SubSeq(b, 1, MantissaBits)
             more == sticky \/ \E i \in (MantissaBits + 2)..Len(b) : b[i] = 1
             up == b[MantissaBits + 1] = 1 /\ (more \/ top[MantissaBits] = 1)
         IN  [m |-> IF up THEN Inc(top) ELSE top, e |-> k]

FInt(n) == [m |-> IntBits(n), e |-> 0]

FDiv(a, b) ==
    LET d == LongDivision(a % b, b, QuotientLimbs)
        q == LimbsToBits(Reverse(d[1]) \o <<a \div b>>)
        r == RoundBits(q, d[2] # 0)
    IN  [m |-> r.m, e |-> r.e - QuotientLimbs * LimbBits]

FMul(f, g) ==
    LET r == RoundBits(MulBits(f.m, g.m), FALSE)
    IN  IF r.m = << >> THEN FInt(0) ELSE [m |-> r.m, e |-> r.e + f.e + g.e]

\* 1 - q, for 0 <= q <= 1
FOneMinus(q) ==
    IF q.m = << >> THEN FInt(1)
    ELSE IF Len(q.m) > -q.e THEN FInt(0)
    ELSE LET pad == Zeros(-q.e - Len(q.m)) \o q.m
             r == RoundBits(Strip(Inc([i \in 1..Len(pad) |-> 1 - pad[i]])), FALSE)
         IN  [m |-> r.m, e |-> r.e + q.e]

FTrunc(f) ==
    IF f.e >= 0 THEN BitsInt(f.m \o Zeros(f.e))
    ELSE IF -f.e >= Len(f.m) THEN 0
    ELSE BitsInt(SubSeq(f.m, 1, Len(f.m) + f.e))

\* round(v, 3) of a double v, in thousandths: the nearest multiple of 0.001 to
\* the exact value of v, a tie going to the even one
FRound3(v) ==
    LET t == MulBits(v.m, IntBits(1000))
        n == Len(t) + v.e
        whole == IF n > 0 THEN BitsInt(SubSeq(t, 1, n)) ELSE 0
        frac == IF n >= 0 THEN SubSeq(t, n + 1, Len(t)) ELSE Zeros(-n) \o t
        up == /\ frac # << >>
              /\ frac[1] = 1
              /\ \/ whole % 2 = 1
                 \/ \E i \in 2..Len(frac) : frac[i] = 1
    IN  IF v.e >= 0 THEN BitsInt(t \o Zeros(v.e))
        ELSE IF up THEN whole + 1 ELSE whole

(***************************************************************************)
(* Inputs.                                                                 *)
(***************************************************************************)
\* image.info.get("dpi", (300, 300))[0]
DefaultDpi == 300
Dpis == {150, DefaultDpi}

\* 8-bit intensities of the resampled raster: black, mid-gray, near-white, white
\* (at the default power 255 the double arithmetic takes 254 to power 0)
White == 255
Samples == {0, 128, 254, White}

\* the keyword defaults of png_to_gcode, and settings that change one of them;
\* negative options are not among the inputs
DefaultConfig ==
    [laser_max_power |-> 255, feed_rate |-> 1500, fast_return_rate |-> 3000,
     lines_per_mm |-> 10]
Configs ==
    { DefaultConfig,
      [DefaultConfig EXCEPT !.laser_max_power = 100],
      [DefaultConfig EXCEPT !.laser_max_power = 0],
      [DefaultConfig EXCEPT !.feed_rate = 0, !.fast_return_rate = 0],
      [DefaultConfig EXCEPT !.lines_per_mm = 20],
      [DefaultConfig EXCEPT !.lines_per_mm = 0] }

\* paths are sequences of characters
GcodeExt == <<".", "g", "c", "o", "d", "e">>
BmpExt == <<".", "b", "m", "p">>
OutputFiles == { <<"a">> \o GcodeExt, <<"a", ".", "n", "c">> }

None == << >>

(***************************************************************************)
(* The pure steps of png_to_gcode.                                         *)
(***************************************************************************)
\* ScaleDim rounding up instead of truncating
ScaleDimUp(size, dpi, lpm) ==
    FTrunc(FMul(FMul(FDiv(size, dpi), FDiv(254, 10)), FInt(lpm))) + 1

\* int(size / dpi * 25.4 * lines_per_mm)
ScaleDim(size, dpi, lpm) ==
    FTrunc(FMul(FMul(FDiv(size, dpi), FDiv(254, 10)), FInt(lpm)))

\* int((1 - sample / 255) * laser_max_power), laser_max_power >= 0
Quantize(sample, max_power) ==
    FTrunc(FMul(FOneMinus(FDiv(sample, 255)), FInt(max_power)))

\* round(index * pixel_size_mm, 3) with pixel_size_mm = 1 / lines_per_mm, in
\* thousandths of a millimetre
Coordinate(index, lpm) == FRound3(FMul(FInt(index), FDiv(1, lpm)))

\* the row of the raster that pixels[x, -y] reads: PixelAccess adds the image
\* height to a negative index
RowIndex(yy, height) == IF -yy < 0 THEN height + (-yy) ELSE -yy

RECURSIVE Replace(_, _, _)
\* str.replace(old, new): every occurrence, left to right, without overlap
Replace(str, old, new) ==
    IF Len(str) < Len(old) THEN str
    ELSE IF SubSeq(str, 1, Len(old)) = old
         THEN new \o Replace(SubSeq(str, Len(old) + 1, Len(str)), old, new)
         ELSE <<str[1]>> \o Replace(Tail(str), old, new)

\* output_file.replace(".gcode", ".bmp")
BmpPath(path) == Replace(path, GcodeExt, BmpExt)

\* the values the power and coordinate computations take on the inputs of the
\* model, computed once
PowerTable ==
    [p \in {c.laser_max_power : c \in Configs} |-> [s \in Samples |-> Quantize(s, p)]]
CoordinateTable ==
    [l \in {c.lines_per_mm : c \in Configs} \ {0} |->
        [k \in 0..(MaxPixels + 1) |-> Coordinate(k, l)]]

Power(sample) == PowerTable[laser_max_power][sample]
Coord(index) == CoordinateTable[lines_per_mm][index]

(***************************************************************************)
(* Program lines.  A line is a record of its command word and its          *)
(* arguments; comments after ";" on a command line are dropped.            *)
(***************************************************************************)
Units == [op |-> "G21"]
Absolute == [op |-> "G90"]
LaserOff == [op |-> "M5"]
SetFeed(f) == [op |-> "G1", f |-> f]
Move(xc, yc, s) == [op |-> "G1", x |-> xc, y |-> yc, s |-> s]
FastReturn(yc, f) == [op |-> "G1", x |-> 0, y |-> yc, f |-> f]
RowComment(yy) == [op |-> ";", row |-> yy]
ThumbnailComment(w, h) == [op |-> ";", thumbnail |-> <<w, h>>]
Origin == [op |-> "G0", x |-> 0, y |-> 0]
EndProgram == [op |-> "M30"]

Preamble == <<Units, Absolute, LaserOff, SetFeed(feed_rate)>>
Footer == <<Origin, LaserOff, EndProgram>>

\* BlankRow testing for black instead of white
BlankRowBlack(yy) ==
    \A c \in 0..(new_width - 1) : pixels[<<c, RowIndex(yy, new_height)>>] = 0

\* all(pixels[x, -y] == 255 for x in range(new_width))
BlankRow(yy) ==
    \A c \in 0..(new_width - 1) : pixels[<<c, RowIndex(yy, new_height)>>] = White

\* power != current_power
PowerChanged(power) == <<power>> # current_power

\* SegmentEnd closing the run at the column that differs
SegmentEndAtChange(col) == col

\* x_end = x - 1
SegmentEnd(col) == col - 1

\* RowTail travelling back before the laser is off
RowTailReturnFirst ==
    <<FastReturn(Coord(y + 1), fast_return_rate), LaserOff, SetFeed(feed_rate)>>

\* the three lines that close a row
RowTail ==
    <<LaserOff, FastReturn(Coord(y + 1), fast_return_rate), SetFeed(feed_rate)>>

(***************************************************************************)
(* The run.                                                                *)
(***************************************************************************)
\* the runs of the model are those whose target raster has at most MaxPixels
\* samples
TargetPixels(w, h, dpi, lpm) ==
    IF lpm = 0 THEN 0 ELSE ScaleDim(w, dpi, lpm) * ScaleDim(h, dpi, lpm)

Init ==
    /\ image \in [width : 1..MaxSrcSide, height : 1..MaxSrcSide, dpi : Dpis]
    /\ \E c \in Configs :
          /\ laser_max_power = c.laser_max_power
          /\ feed_rate = c.feed_rate
          /\ fast_return_rate = c.fast_return_rate
          /\ lines_per_mm = c.lines_per_mm
    /\ TargetPixels(image.width, image.height, image.dpi, lines_per_mm) <= MaxPixels
    /\ output_file \in OutputFiles
    /\ thumbnail_ok \in BOOLEAN
    /\ pc = "scale"
    /\ new_width = None /\ new_height = None
    /\ pixels = None
    /\ bmp_path = None
    /\ gcode = << >>
    /\ y = None /\ x = None /\ x_start = None /\ current_power = None
    /\ total_gcode_lines = None
    /\ files = << >>
    /\ error = None

Fail(exception) ==
    /\ pc' = "failed"
    /\ error' = exception

\* lines 44-53: open the image, read its DPI, derive the target resolution
Scale ==
    /\ pc = "scale"
    /\ IF lines_per_mm = 0
       THEN /\ Fail("ZeroDivisionError")
            /\ UNCHANGED <<new_width, new_height>>
       ELSE /\ new_width' = ScaleDim(image.width, image.dpi, lines_per_mm)
            /\ new_height' = ScaleDim(image.height, image.dpi, lines_per_mm)
            /\ pc' = "resize"
            /\ UNCHANGED error
    /\ UNCHANGED <<image, laser_max_power, feed_rate, fast_return_rate,
                   lines_per_mm, output_file, thumbnail_ok, pixels, bmp_path,
                   gcode, y, x, x_start, current_power, total_gcode_lines, files>>

\* lines 56-57: resample to the target resolution; the resampled samples are
\* whatever the filter produces, and a target without pixels is refused
Resize ==
    /\ pc = "resize"
    /\ IF new_width < 1 \/ new_height < 1
       THEN /\ Fail("ValueError")
            /\ UNCHANGED pixels
       ELSE /\ pixels' \in [(0..(new_width - 1)) \X (0..(new_height - 1)) -> Samples]
            /\ pc' = "save_bmp"
            /\ UNCHANGED error
    /\ UNCHANGED <<image, laser_max_power, feed_rate, fast_return_rate,
                   lines_per_mm, output_file, thumbnail_ok, new_width, new_height,
                   bmp_path, gcode, y, x, x_start, current_power,
                   total_gcode_lines, files>>

WriteFile(path, content) ==
    files' = [p \in DOMAIN files \cup {path} |-> IF p = path THEN content ELSE files[p]]

\* lines 60-61: save the resampled raster as a bitmap
SaveBmp ==
    /\ pc = "save_bmp"
    /\ bmp_path' = BmpPath(output_file)
    /\ WriteFile(bmp_path', [format |-> "BMP", size |-> <<new_width, new_height>>])
    /\ pc' = "init"
    /\ UNCHANGED <<image, laser_max_power, feed_rate, fast_return_rate,
                   lines_per_mm, output_file, thumbnail_ok, new_width, new_height,
                   pixels, gcode, y, x, x_start, current_power,
                   total_gcode_lines, error>>

\* lines 64-69
InitGcode ==
    /\ pc = "init"
    /\ gcode' = Preamble
    /\ pc' = "thumbnail"
    /\ UNCHANGED <<image, laser_max_power, feed_rate, fast_return_rate,
                   lines_per_mm, output_file, thumbnail_ok, new_width, new_height,
                   pixels, bmp_path, y, x, x_start, current_power,
                   total_gcode_lines, files, error>>

\* line 71 and add_gcode_thumbnail: an exception of thumbnail.save is not caught
\* anywhere, so it ends the run; lines 73 and 76 start the row loop
AddThumbnail ==
    /\ pc = "thumbnail"
    /\ IF thumbnail_ok
       THEN /\ gcode' = <<ThumbnailComment(new_width, new_height)>> \o gcode
            /\ total_gcode_lines' = 0
            /\ y' = 0
            /\ pc' = "row"
            /\ UNCHANGED error
       ELSE /\ Fail("thumbnail.save")
            /\ UNCHANGED <<gcode, total_gcode_lines, y>>
    /\ UNCHANGED <<image, laser_max_power, feed_rate, fast_return_rate,
                   lines_per_mm, output_file, thumbnail_ok, new_width, new_height,
                   pixels, bmp_path, x, x_start, current_power, files>>

\* lines 76-83: the next row; a blank row is skipped
NextRow ==
    /\ pc = "row"
    /\ IF y = new_height
       THEN /\ pc' = "finalize"
            /\ UNCHANGED <<gcode, y, x, x_start, current_power>>
       ELSE IF BlankRow(y)
       THEN /\ y' = y + 1
            /\ UNCHANGED <<pc, gcode, x, x_start, current_power>>
       ELSE /\ gcode' = Append(gcode, RowComment(y))
            /\ x_start' = None
            /\ current_power' = None
            /\ x' = 0
            /\ pc' = "column"
            /\ UNCHANGED y
    /\ UNCHANGED <<image, laser_max_power, feed_rate, fast_return_rate,
                   lines_per_mm, output_file, thumbnail_ok, new_width, new_height,
                   pixels, bmp_path, total_gcode_lines, files, error>>

\* lines 85-95: one column of the row
NextColumn ==
    /\ pc = "column"
    /\ x < new_width
    /\ LET power == Power(pixels[<<x, RowIndex(y, new_height)>>])
       IN  IF PowerChanged(power)
           THEN /\ gcode' = IF current_power # None
                            THEN Append(gcode, Move(Coord(SegmentEnd(x)), Coord(y),
                                                    current_power[1]))
                            ELSE gcode
                /\ x_start' = <<x>>
                /\ current_power' = <<power>>
           ELSE UNCHANGED <<gcode, x_start, current_power>>
    /\ x' = x + 1
    /\ UNCHANGED <<image, laser_max_power, feed_rate, fast_return_rate,
                   lines_per_mm, output_file, thumbnail_ok, pc, new_width,
                   new_height, pixels, bmp_path, y, total_gcode_lines, files, error>>

\* lines 97-107: close the last segment, switch off, return
EndRow ==
    /\ pc = "column"
    /\ x = new_width
    /\ gcode' = (IF current_power # None
                 THEN Append(gcode, Move(Coord(new_width - 1), Coord(y), current_power[1]))
                 ELSE gcode) \o RowTail
    /\ total_gcode_lines' = total_gcode_lines + 1
    /\ y' = y + 1
    /\ pc' = "row"
    /\ UNCHANGED <<image, laser_max_power, feed_rate, fast_return_rate,
                   lines_per_mm, output_file, thumbnail_ok, new_width, new_height,
                   pixels, bmp_path, x, x_start, current_power, files, error>>

\* lines 110-112
Finalize ==
    /\ pc = "finalize"
    /\ gcode' = gcode \o Footer
    /\ pc' = "write"
    /\ UNCHANGED <<image, laser_max_power, feed_rate, fast_return_rate,
                   lines_per_mm, output_file, thumbnail_ok, new_width, new_height,
                   pixels, bmp_path, y, x, x_start, current_power,
                   total_gcode_lines, files, error>>

\* lines 115-116
WriteProgram ==
    /\ pc = "write"
    /\ WriteFile(output_file, [format |-> "gcode", lines |-> gcode])
    /\ pc' = "done"
    /\ UNCHANGED <<image, laser_max_power, feed_rate, fast_return_rate,
                   lines_per_mm, output_file, thumbnail_ok, new_width, new_height,
                   pixels, bmp_path, gcode, y, x, x_start, current_power,
                   total_gcode_lines, error>>

Next ==
    \/ Scale
    \/ Resize
    \/ SaveBmp
    \/ InitGcode
    \/ AddThumbnail
    \/ NextRow
    \/ NextColumn
    \/ EndRow
    \/ Finalize
    \/ WriteProgram

Spec == Init /\ [][Next]_vars

(***************************************************************************)
(* Reading a program back.                                                 *)
(***************************************************************************)
IsMove(line) == line.op = "G1" /\ DOMAIN line = {"op", "x", "y", "s"}
IsFastReturn(line) == line.op = "G1" /\ DOMAIN line = {"op", "x", "y", "f"}
LaserOnOps == {"M3", "M4"}

HasRow(yy) == \E i \in 1..Len(gcode) : gcode[i] = RowComment(yy)
RowStart(yy) == CHOOSE i \in 1..Len(gcode) : gcode[i] = RowComment(yy)

\* the number of consecutive segment moves after line i
MovesAfter(i) ==
    CHOOSE n \in 0..(Len(gcode) - i) :
        /\ \A k \in 1..n : IsMove(gcode[i + k])
        /\ i + n + 1 <= Len(gcode) => ~IsMove(gcode[i + n + 1])

RowMoves(yy) == SubSeq(gcode, RowStart(yy) + 1, RowStart(yy) + MovesAfter(RowStart(yy)))

Columns == 0..(new_width - 1)
Rows == 0..(new_height - 1)

AllWhite(r) == \A c \in Columns : pixels[<<c, r>>] = White
Uniform(r) == \A c \in Columns : pixels[<<c, r>>] = pixels[<<0, r>>]

\* the last columns of the maximal runs of equal quantized power in raster row r
RunEnds(r) ==
    {c \in Columns : c = new_width - 1 \/ Power(pixels[<<c, r>>]) # Power(pixels[<<c + 1, r>>])}

\* one move per run of raster row r, engraved as program row yy
RunMoves(yy, r) ==
    [k \in 1..Cardinality(RunEnds(r)) |->
        LET c == CHOOSE c \in RunEnds(r) : Cardinality({d \in RunEnds(r) : d <= c}) = k
        IN  Move(Coord(c), Coord(yy), Power(pixels[<<c, r>>]))]

\* a configuration with every option positive
ValidConfiguration ==
    laser_max_power > 0 /\ feed_rate > 0 /\ fast_return_rate > 0 /\ lines_per_mm > 0

\* round((1 - sample / 255) * max_power); no product is halfway between integers
RoundedPower(sample, max_power) == ((White - sample) * max_power * 2 + 255) \div 510

(***************************************************************************)
(* Claims.                                                                 *)
(***************************************************************************)

\* C1: for a positive laserMaxPower, the power of every segment move is
\* round((1 - s/255) * laserMaxPower) for the sample s of its run, within
\* [0, laserMaxPower]; a uniform mid-gray image at laserMaxPower 100 gives 50.
C1_PowerIsRounded ==
    ValidConfiguration =>
        \A i \in 1..Len(gcode) :
            IsMove(gcode[i]) =>
                LET c == CHOOSE c \in Columns : Coord(c) = gcode[i].x
                    yy == CHOOSE yy \in Rows : Coord(yy) = gcode[i].y
                    s == pixels[<<c, RowIndex(yy, new_height)>>]
                IN  /\ gcode[i].s = RoundedPower(s, laser_max_power)
                    /\ gcode[i].s \in 0..laser_max_power

\* C2: for every non-blank raster row, the segment moves of its block are
\* exactly one per maximal run of equal quantized power, in column order, each
\* with the power of its run and the coordinate of the run's last column; they
\* are at most new_width, and exactly one when the row is uniform.
C2_SegmentsAreRuns ==
    pc = "done" =>
        \A yy \in Rows :
            LET r == RowIndex(yy, new_height)
            IN  ~AllWhite(r) =>
                    /\ HasRow(yy)
                    /\ RowMoves(yy) = RunMoves(yy, r)
                    /\ Len(RowMoves(yy)) = Cardinality(RunEnds(r))
                    /\ Len(RowMoves(yy)) <= new_width
                    /\ RowMoves(yy)[Len(RowMoves(yy))].x = Coord(new_width - 1)
                    /\ Uniform(r) => Len(RowMoves(yy)) = 1

\* C2 witness: a finished program with a row of three columns in two runs
C2_Witness ==
    /\ pc = "done"
    /\ new_width = 3
    /\ \E yy \in Rows :
          /\ HasRow(yy)
          /\ Cardinality(RunEnds(RowIndex(yy, new_height))) = 2
          /\ Len(RowMoves(yy)) = 2

\* C3: when every sample of the target raster is white, no row is entered and
\* the program is the thumbnail comment, the preamble and the footer, with no
\* line of a row block.
C3_WhiteImageHasNoRowBlocks ==
    (pixels # None /\ \A r \in Rows : AllWhite(r)) =>
        /\ pc # "column"
        /\ \A i \in 1..Len(gcode) :
              /\ ~IsMove(gcode[i])
              /\ ~IsFastReturn(gcode[i])
              /\ "row" \notin DOMAIN gcode[i]
        /\ pc = "done" =>
              /\ gcode = <<ThumbnailComment(new_width, new_height)>> \o Preamble \o Footer
              /\ files[output_file].lines = gcode

\* C3 witness: a finished program of a white raster of several rows
C3_Witness ==
    /\ pc = "done"
    /\ new_height >= 2
    /\ \A r \in Rows : AllWhite(r)

C5_InvalidConfigurationRejected ==
    (laser_max_power <= 0 \/ feed_rate <= 0 \/ fast_return_rate <= 0 \/ lines_per_mm <= 0) =>
        /\ pc \in {"scale", "failed"}
        /\ pc = "failed" => error = "InvalidConfigurationError"
        /\ files = << >>

\* C6: a failure of the thumbnail encoding never ends the run; the program is
\* still written, without the thumbnail block.
C6_ThumbnailFailureTolerated ==
    (ValidConfiguration /\ ~thumbnail_ok) =>
        /\ ~(pc = "failed" /\ error = "thumbnail.save")
        /\ pc = "done" =>
              /\ \A i \in 1..Len(gcode) : "thumbnail" \notin DOMAIN gcode[i]
              /\ files[output_file].lines = gcode

\* C7: for a source image of positive size, a positive DPI and a positive
\* linesPerMm, both target dimensions are at least 1.
C7_TargetRasterNonEmpty ==
    (ValidConfiguration /\ pc # "scale") => (new_width >= 1 /\ new_height >= 1)

\* C8: every X of a program line is between 0 and the canvas width, every Y
\* between 0 and the canvas height, within 0.001 mm; coordinates are in
\* thousandths of a millimetre and the canvas is size / dpi * 25.4 mm.
C8_CoordinatesWithinCanvas ==
    \A i \in 1..Len(gcode) :
        "x" \in DOMAIN gcode[i] =>
            /\ gcode[i].x >= 0
            /\ gcode[i].y >= 0
            /\ gcode[i].x * image.dpi <= image.width * 25400 + image.dpi
            /\ gcode[i].y * image.dpi <= image.height * 25400 + image.dpi

\* C8 witness: a finished program whose last row is engraved to the last column
\* and followed by the fast return to row new_height
C8_Witness ==
    /\ pc = "done"
    /\ new_width >= 2
    /\ HasRow(new_height - 1)
    /\ \E i \in 1..Len(gcode) : gcode[i] = FastReturn(Coord(new_height), fast_return_rate)
    /\ \E i \in 1..Len(gcode) : IsMove(gcode[i]) /\ gcode[i].x = Coord(new_width - 1)
    /\ Coord(new_height) > 0

\* C9: the bitmap and the program are written to two different paths, and
\* after a successful run the output path holds the program and the sibling
\* path with the image extension holds the bitmap.
C9_SeparateOutputFiles ==
    ValidConfiguration =>
        /\ bmp_path # None => bmp_path # output_file
        /\ pc = "done" =>
              /\ files[output_file].format = "gcode"
              /\ files[bmp_path].format = "BMP"

\* C10: program row y is read from the raster bottom-to-top, y = 0 from the
\* bottom raster row and y = new_height - 1 from the top one: row y has a block
\* exactly when raster row new_height - 1 - y is not blank, and its moves are
\* the runs of that raster row.
C10_RowsReadBottomToTop ==
    (ValidConfiguration /\ pc = "done") =>
        \A yy \in Rows :
            LET r == new_height - 1 - yy
            IN  /\ HasRow(yy) <=> ~AllWhite(r)
                /\ HasRow(yy) => RowMoves(yy) = RunMoves(yy, r)

====
